---- MODULE Spec2Model ----
(***************************************************************************)
(* fixit: a reaction game.  Seven fixable objects break at random; the     *)
(* player presses an object's key to fix it.  The Window event handler     *)
(* (src/src/screen.rs) drives the objects (src/src/api.rs) and shows a     *)
(* game-over screen (src/src/pause.rs) once a popup outlives its lifetime  *)
(* or a key is pressed that fixes nothing.                                 *)
(*                                                                         *)
(* Option<T> is modelled as a sequence of length at most one: <<>> is      *)
(* None and <<v>> is Some(v); unwrap is Head.                              *)
(* Window.frame is written by update and read by nothing; it is left out   *)
(* of the state.  Positions, textures and fonts are rendering data.        *)
(***************************************************************************)
EXTENDS Integers, Sequences, FiniteSets

\* ---------------------------------------------------------------- bounds
\* The random trigger is explored only while at most MaxBroken objects are
\* broken at once ...
MaxBroken == 2
\* ... and only on ticks where every object that is already broken has been
\* broken for at most MaxStagger frames.
MaxStagger == 0

\* ------------------------------------------------------------- constants
GAME_STATE == [broken_lifetime |-> 120]

\* The key codes the model delivers: the five fix keys of the layout, the
\* quit key, and one key ("X") that no object owns.
VirtualKeyCode == {"W", "M", "R", "L", "D", "Escape", "X"}

\* input.keycode : Option<VirtualKeyCode>
KeyInput == {<<>>} \cup {<<k>> : k \in VirtualKeyCode}

\* Outcomes of gen_range(0. ..1.) in units of 0.00001: the two values on
\* either side of the breaking chance.
Samples == {119, 120}

\* --------------------------------------------------------------- helpers
is_some(o) == o # <<>>

unwrap(o) == Head(o)

\* GameState::chance_of_breaking, in units of 0.00001
chance_of_breaking(state) == state.broken_lifetime

\* ------------------------------------------------------------- KeyPopup
KeyPopup_new(key, lifetime) ==
    [text |-> key, frames_existed |-> 0, lifetime |-> lifetime]

KeyPopup_update(popup) ==
    [popup EXCEPT !.frames_existed = @ + 1]

\* ----------------------------------------------------- FixableGameObject
FixableGameObject_new(fix_key) ==
    [fix_key |-> fix_key, frames_since_broken |-> <<>>, key_object |-> <<>>]

is_broken(self) == is_some(self.frames_since_broken)

mess_up(self, state) ==
    [self EXCEPT !.frames_since_broken = <<0>>,
                 !.key_object = <<KeyPopup_new(self.fix_key, state.broken_lifetime)>>]

\* Returns the object after the call and the returned bool.
on_key_pressed_nocheck(self, code) ==
    IF code = self.fix_key
    THEN [self |-> [self EXCEPT !.frames_since_broken = <<>>, !.key_object = <<>>],
          result |-> TRUE]
    ELSE [self |-> self, result |-> FALSE]

on_key_pressed_keeps_popup(self, code) ==
    IF code = self.fix_key /\ is_broken(self)
    THEN [self |-> [self EXCEPT !.frames_since_broken = <<>>], result |-> TRUE]
    ELSE [self |-> self, result |-> FALSE]

on_key_pressed(self, code) ==
    IF code = self.fix_key /\ is_broken(self)
    THEN [self |-> [self EXCEPT !.frames_since_broken = <<>>, !.key_object = <<>>],
          result |-> TRUE]
    ELSE [self |-> self, result |-> FALSE]

\* GameObject::on_key_released, the default that FixableGameObject keeps.
on_key_released_fixes(self, code) == on_key_pressed(self, code).self

on_key_released(self, code) == self

\* sample is the value drawn from the random generator (read only when the
\* object is not broken).
FixableGameObject_update_nopopup(self, state, sample) ==
    IF is_broken(self)
    THEN [self EXCEPT !.frames_since_broken = <<unwrap(@) + 1>>]
    ELSE IF sample < chance_of_breaking(state) THEN mess_up(self, state) ELSE self

FixableGameObject_update_rebreak(self, state, sample) ==
    IF is_broken(self) /\ unwrap(self.frames_since_broken) < state.broken_lifetime
    THEN [self EXCEPT !.frames_since_broken = <<unwrap(@) + 1>>,
                      !.key_object = <<KeyPopup_update(unwrap(@))>>]
    ELSE IF is_broken(self) \/ sample < chance_of_breaking(state)
         THEN mess_up(self, state)
         ELSE self

FixableGameObject_update(self, state, sample) ==
    IF is_broken(self)
    THEN [self EXCEPT !.frames_since_broken = <<unwrap(@) + 1>>,
                      !.key_object = <<KeyPopup_update(unwrap(@))>>]
    ELSE IF sample < chance_of_breaking(state) THEN mess_up(self, state) ELSE self

\* --------------------------------------------------------- GameOverScreen
WrongKey(key) == [tag |-> "WrongKey", key |-> key]

NotInTime(key) == [tag |-> "NotInTime", key |-> key]

GameOverScreen_new(cause) ==
    [title |-> "Game Over",
     description |->
        IF cause.tag = "WrongKey"
        THEN <<"You pressed ", cause.key, " when nothing needed it.">>
        ELSE <<"You waited too long to press ", cause.key, ".">>]

\* ----------------------------------------------------------------- Window
create_objects_distinct ==
    << FixableGameObject_new("W"),
       FixableGameObject_new("M"),
       FixableGameObject_new("R"),
       FixableGameObject_new("L"),
       FixableGameObject_new("D"),
       FixableGameObject_new("E"),
       FixableGameObject_new("F") >>

create_objects ==
    << FixableGameObject_new("W"),      \* window
       FixableGameObject_new("M"),      \* milk
       FixableGameObject_new("R"),      \* rug
       FixableGameObject_new("L"),      \* lamp
       FixableGameObject_new("D"),      \* drawer_1
       FixableGameObject_new("D"),      \* drawer_2
       FixableGameObject_new("D") >>    \* drawer_3

VARIABLES components, menu, exit_code

vars == <<components, menu, exit_code>>

Window_new == [components |-> create_objects, menu |-> <<>>]

is_paused == is_some(menu)

running == exit_code = <<>>

pause_toggle(new_menu) == IF is_some(menu) THEN <<>> ELSE <<new_menu>>

pause(new_menu) == <<new_menu>>

is_game_over_at_lifetime(component) ==
    is_broken(component) /\ unwrap(component.key_object).frames_existed >= 120

is_game_over_late(component) ==
    is_broken(component) /\ unwrap(component.key_object).frames_existed > 121

is_game_over(component) ==
    is_broken(component) /\ unwrap(component.key_object).frames_existed > 120

\* The loop of Window::update without the break: every component is updated
\* and the last one over its lifetime is remembered.
RECURSIVE update_all_components(_, _, _)
update_all_components(comps, i, samples) ==
    IF i > Len(comps)
    THEN [components |-> comps, game_over_key |-> <<>>]
    ELSE LET c    == FixableGameObject_update(comps[i], GAME_STATE, samples[i])
             cs   == [comps EXCEPT ![i] = c]
             rest == update_all_components(cs, i + 1, samples)
         IN IF is_game_over(c) /\ ~is_some(rest.game_over_key)
            THEN [rest EXCEPT !.game_over_key = <<c.fix_key>>]
            ELSE rest

\* The loop of Window::update over components i..Len: updates each one in
\* order and leaves the loop at the first that is over its lifetime.
RECURSIVE update_components(_, _, _)
update_components(comps, i, samples) ==
    IF i > Len(comps)
    THEN [components |-> comps, game_over_key |-> <<>>]
    ELSE LET c  == FixableGameObject_update(comps[i], GAME_STATE, samples[i])
             cs == [comps EXCEPT ![i] = c]
         IN IF is_game_over(c)
            THEN [components |-> cs, game_over_key |-> <<c.fix_key>>]
            ELSE update_components(cs, i + 1, samples)

update_loop(comps, samples) == update_components(comps, 1, samples)

\* The loop of Window::key_down_event with fixed_something overwritten by
\* every call.
RECURSIVE press_components_overwrite(_, _, _, _)
press_components_overwrite(comps, i, code, fixed_something) ==
    IF i > Len(comps)
    THEN [components |-> comps, fixed_something |-> fixed_something]
    ELSE LET r == on_key_pressed(comps[i], code)
         IN press_components_overwrite([comps EXCEPT ![i] = r.self], i + 1,
                                       code, r.result)

\* The loop of Window::key_down_event leaving at the first component that
\* accepts the key.
RECURSIVE press_components_first(_, _, _, _)
press_components_first(comps, i, code, fixed_something) ==
    IF i > Len(comps)
    THEN [components |-> comps, fixed_something |-> fixed_something]
    ELSE LET r == on_key_pressed(comps[i], code)
         IN IF r.result
            THEN [components |-> [comps EXCEPT ![i] = r.self],
                  fixed_something |-> TRUE]
            ELSE press_components_first(comps, i + 1, code, fixed_something)

\* The loop of Window::key_down_event over components i..Len.
RECURSIVE press_components(_, _, _, _)
press_components(comps, i, code, fixed_something) ==
    IF i > Len(comps)
    THEN [components |-> comps, fixed_something |-> fixed_something]
    ELSE LET r == on_key_pressed(comps[i], code)
         IN press_components([comps EXCEPT ![i] = r.self], i + 1, code,
                             IF r.result THEN TRUE ELSE fixed_something)

press_loop(comps, code) == press_components(comps, 1, code, FALSE)

\* ------------------------------------------------------ explored samples
Broken(comps) == {i \in DOMAIN comps : is_broken(comps[i])}

Firing(samples) ==
    {i \in DOMAIN components :
        ~is_broken(components[i]) /\ samples[i] < chance_of_breaking(GAME_STATE)}

\* No object breaks: every draw is at or above the chance.
NoFire == [i \in DOMAIN components |-> 120]

\* The draws the model explores on one tick (a broken object draws nothing;
\* its entry is fixed).
ExploredSamples ==
    IF /\ Cardinality(Broken(components)) < MaxBroken
       /\ \A i \in Broken(components) :
             unwrap(components[i].frames_since_broken) <= MaxStagger
    THEN {s \in [DOMAIN components -> Samples] :
            /\ \A i \in Broken(components) : s[i] = 120
            /\ Cardinality(Firing(s)) + Cardinality(Broken(components)) <= MaxBroken}
    ELSE {NoFire}

\* ---------------------------------------------------------------- actions
Init ==
    /\ components = Window_new.components
    /\ menu = Window_new.menu
    /\ exit_code = <<>>

\* Each handler is the Window (and the exit status of the process) it leaves
\* behind, as a function of the state it is called in and of its input.
Window_update_unpaused(samples) ==
    LET r == update_loop(components, samples)
    IN [components |-> r.components,
        menu |-> IF is_some(r.game_over_key)
                 THEN pause(GameOverScreen_new(NotInTime(unwrap(r.game_over_key))))
                 ELSE menu,
        exit_code |-> exit_code]

Window_update(samples) ==
    IF is_paused
    THEN [components |-> components, menu |-> menu, exit_code |-> exit_code]
    ELSE LET r == update_loop(components, samples)
         IN [components |-> r.components,
             menu |-> IF is_some(r.game_over_key)
                      THEN pause(GameOverScreen_new(NotInTime(unwrap(r.game_over_key))))
                      ELSE menu,
             exit_code |-> exit_code]

\* key_down_event with the quit test after the component loop.
key_down_event_late_escape(input) ==
    IF is_some(input)
    THEN LET r == press_loop(components, unwrap(input))
         IN [components |-> r.components,
             menu |-> IF ~r.fixed_something
                      THEN pause(GameOverScreen_new(WrongKey(unwrap(input))))
                      ELSE menu,
             exit_code |-> IF unwrap(input) = "Escape" THEN <<0>> ELSE exit_code]
    ELSE [components |-> components, menu |-> menu, exit_code |-> exit_code]

key_down_event(input) ==
    IF is_some(input)
    THEN IF unwrap(input) = "Escape"
         THEN [components |-> components, menu |-> menu, exit_code |-> <<0>>]
         ELSE LET r == press_loop(components, unwrap(input))
              IN [components |-> r.components,
                  menu |-> IF ~r.fixed_something
                           THEN pause(GameOverScreen_new(WrongKey(unwrap(input))))
                           ELSE menu,
                  exit_code |-> exit_code]
    ELSE [components |-> components, menu |-> menu, exit_code |-> exit_code]

key_up_event(input) ==
    IF is_some(input)
    THEN [components |-> [i \in DOMAIN components |->
                            on_key_released(components[i], unwrap(input))],
          menu |-> menu,
          exit_code |-> exit_code]
    ELSE [components |-> components, menu |-> menu, exit_code |-> exit_code]

\* The host delivers an event to the running process.
Deliver(after) ==
    /\ running
    /\ components' = after.components
    /\ menu' = after.menu
    /\ exit_code' = after.exit_code

UpdateOf(samples) == Deliver(Window_update(samples))

KeyDownOf(input) == Deliver(key_down_event(input))

KeyUpOf(input) == Deliver(key_up_event(input))

Update == \E samples \in ExploredSamples : UpdateOf(samples)

KeyDown == \E input \in KeyInput : KeyDownOf(input)

KeyUp == \E input \in KeyInput : KeyUpOf(input)

Next == Update \/ KeyDown \/ KeyUp

Spec == Init /\ [][Next]_vars

\* ------------------------------------------------------------- properties
NonQuitKeys == VirtualKeyCode \ {"Escape"}

Min(S) == CHOOSE x \in S : \A y \in S : x <= y

frames_since_broken(c) == unwrap(c.frames_since_broken)

frames_existed(c) == unwrap(c.key_object).frames_existed

\* isTimedOut of the specification: broken, and the popup has existed for
\* more frames than its own lifetime.
TimedOut(c) == is_broken(c) /\ frames_existed(c) > unwrap(c.key_object).lifetime

\* C1 (as stated): a key other than the quit key pressed while playing with
\* no object broken leaves the game playing and every object unchanged.
C1_InertKeyWhenNothingBroken ==
    [][\A k \in NonQuitKeys :
          (~is_paused /\ Broken(components) = {} /\ KeyDownOf(<<k>>))
          => (menu' = <<>> /\ components' = components)]_vars

\* C1 (amended): in every playing state with no object broken, a key-down of
\* a key other than the quit key ends the game with the wrong-key screen for
\* that key and leaves every object unchanged.
C1_KeyWhenNothingBrokenPauses ==
    \A k \in NonQuitKeys :
        (running /\ ~is_paused /\ Broken(components) = {})
        => LET after == key_down_event(<<k>>)
           IN /\ after.menu = <<GameOverScreen_new(WrongKey(k))>>
              /\ after.components = components
              /\ after.exit_code = exit_code

C1_Witness ==
    /\ menu = <<GameOverScreen_new(WrongKey("W"))>>
    /\ Broken(components) = {}
    /\ running

\* C2 (as stated): while paused, a key-down of a non-quit key changes no
\* object (broken state, frames_since_broken, popup).
C2_PausedKeyDownFrozen ==
    [][\A k \in NonQuitKeys :
          (is_paused /\ KeyDownOf(<<k>>)) => components' = components]_vars

\* C3: while paused, a tick changes no object.
C3_PausedTickFrozen ==
    [][(is_paused /\ Update) => components' = components]_vars

C3_Witness ==
    /\ is_paused
    /\ running
    /\ \E i \in Broken(components) : frames_existed(components[i]) < 120
    /\ \E i \in DOMAIN components : ~is_broken(components[i])

\* C4: once paused, the window stays paused after every event.
C4_PausedIsTerminal ==
    [][is_paused => is_some(menu')]_vars

\* Paused by a timeout, and a later wrong key has replaced the screen.
C4_Witness ==
    /\ menu = <<GameOverScreen_new(WrongKey("X"))>>
    /\ \E i \in Broken(components) : frames_existed(components[i]) = 121

\* C5: with one object broken, a tick in the playing state that brings its
\* popup to at most the popup's lifetime keeps the game playing, and the tick
\* that brings it to lifetime + 1 shows the not-in-time screen for its key.
C5_TimeoutBoundary ==
    [][\A i \in DOMAIN components :
          (~is_paused /\ Update /\ Broken(components) = {i})
          => LET n        == frames_existed(components[i])
                 lifetime == unwrap(components[i].key_object).lifetime
             IN /\ n = frames_since_broken(components[i])
                /\ is_broken(components'[i])
                /\ frames_existed(components'[i]) = n + 1
                /\ (n + 1 <= lifetime => menu' = <<>>)
                /\ (n + 1 = lifetime + 1 =>
                      menu' = <<GameOverScreen_new(NotInTime(components[i].fix_key))>>)
                /\ n + 1 <= lifetime + 1]_vars

C5_Witness ==
    /\ menu = <<GameOverScreen_new(NotInTime("W"))>>
    /\ Broken(components) = {1}
    /\ frames_existed(components[1]) = 121
    /\ unwrap(components[1].key_object).lifetime = 120

\* C6: on_key_pressed returns true exactly when the object is broken and the
\* key is its fix key; then the object is left unbroken without a popup, and
\* otherwise it is left as it was.
C6_TryFix ==
    \A i \in DOMAIN components : \A k \in VirtualKeyCode :
        LET c  == components[i]
            r  == on_key_pressed(c, k)
            ok == is_broken(c) /\ k = c.fix_key
        IN /\ r.result = ok
           /\ ok => /\ r.self.frames_since_broken = <<>>
                    /\ r.self.key_object = <<>>
                    /\ r.self.fix_key = c.fix_key
           /\ ~ok => r.self = c

C6_Witness ==
    /\ ~is_paused
    /\ \E i \in Broken(components) : frames_existed(components[i]) = 60
    /\ \E i \in DOMAIN components : ~is_broken(components[i])

\* C7: while playing with an object broken, a key that is the fix key of no
\* broken object shows the wrong-key screen for that key and changes no
\* object; a key that is the fix key of a broken object keeps the game
\* playing and leaves that object unbroken.
C7_KeyWhileBroken ==
    [][\A k \in NonQuitKeys :
          (~is_paused /\ Broken(components) # {} /\ KeyDownOf(<<k>>))
          => LET matching == {i \in Broken(components) : components[i].fix_key = k}
             IN IF matching = {}
                THEN /\ menu' = <<GameOverScreen_new(WrongKey(k))>>
                     /\ components' = components
                ELSE /\ menu' = <<>>
                     /\ \A i \in matching : ~is_broken(components'[i])
                     /\ \A i \in DOMAIN components \ matching :
                           components'[i] = components[i]]_vars

C7_Witness ==
    /\ menu = <<GameOverScreen_new(WrongKey("M"))>>
    /\ Broken(components) = {1}
    /\ frames_existed(components[1]) = 7

\* The objects that are timed out after the step, and the position at which
\* the tick stops: the first of them, or the end of the collection.
TimedOutAfter == {i \in DOMAIN components : TimedOut(components'[i])}

StopAfter == IF TimedOutAfter = {} THEN Len(components) ELSE Min(TimedOutAfter)

Ticked(c, d) ==
    IF is_broken(c)
    THEN /\ is_broken(d)
         /\ frames_since_broken(d) = frames_since_broken(c) + 1
         /\ frames_existed(d) = frames_existed(c) + 1
         /\ d.fix_key = c.fix_key
    ELSE d \in {c, mess_up(c, GAME_STATE)}

\* C8 (as stated): a tick in the playing state ticks every object, so the
\* counter of every broken object advances by one on every such tick.
C8_EveryObjectTicked ==
    [][(~is_paused /\ Update)
       => \A i \in Broken(components) :
             /\ is_broken(components'[i])
             /\ frames_since_broken(components'[i])
                   = frames_since_broken(components[i]) + 1]_vars

\* C8 (amended): a tick in the playing state ticks the objects in order up to
\* and including the first object that is timed out after its own tick (all
\* of them when none is), and leaves every object after that one unchanged.
C8_TickedUpToFirstTimedOut ==
    [][(~is_paused /\ Update)
       => \A i \in DOMAIN components :
             IF i <= StopAfter
             THEN Ticked(components[i], components'[i])
             ELSE components'[i] = components[i]]_vars

\* The window timed out; drawer_1, one frame younger, was not ticked.
C8_Witness ==
    /\ menu = <<GameOverScreen_new(NotInTime("W"))>>
    /\ Broken(components) = {1, 5}
    /\ frames_existed(components[1]) = 121
    /\ frames_existed(components[5]) = 119

\* C9: a tick that ends the game by timeout reports the fix key of the first
\* object in insertion order that is timed out after the tick, and that
\* object is still broken, its popup and counters as the tick left them.
C9_FirstTimedOutReported ==
    [][(~is_paused /\ Update /\ is_some(menu'))
       => /\ TimedOutAfter # {}
          /\ LET f == Min(TimedOutAfter)
             IN /\ menu' = <<GameOverScreen_new(NotInTime(components[f].fix_key))>>
                /\ is_broken(components[f])
                /\ Ticked(components[f], components'[f])
                /\ unwrap(components'[f].key_object).text = components[f].fix_key]_vars

\* The window and the milk broke on the same tick; the window is reported.
C9_Witness ==
    /\ menu = <<GameOverScreen_new(NotInTime("W"))>>
    /\ Broken(components) = {1, 2}
    /\ frames_existed(components[1]) = 121
    /\ frames_existed(components[2]) = 120

\* C10: a broken object's frames_since_broken equals its popup's
\* frames_existed; both are 0 in the step that breaks it, and a step that
\* leaves it broken either leaves both as they were or adds one to both.
C10_CountersInStep ==
    [][\A i \in DOMAIN components :
          LET c == components[i]
              d == components'[i]
          IN /\ is_broken(d) =>
                   /\ is_some(d.key_object)
                   /\ frames_since_broken(d) = frames_existed(d)
             /\ (~is_broken(c) /\ is_broken(d)) =>
                   /\ frames_since_broken(d) = 0
                   /\ frames_existed(d) = 0
                   /\ ~is_paused /\ Update
             /\ (is_broken(c) /\ is_broken(d)) =>
                   \/ d = c
                   \/ /\ ~is_paused /\ Update
                      /\ frames_since_broken(d) = frames_since_broken(c) + 1
                      /\ frames_existed(d) = frames_existed(c) + 1]_vars

C10_Witness ==
    /\ ~is_paused
    /\ \E i \in Broken(components) :
          /\ frames_since_broken(components[i]) = 77
          /\ frames_existed(components[i]) = 77

\* C11: in every reachable state an object has a popup exactly when it is
\* broken, and the popup shows the object's fix key.
C11_PopupIffBroken ==
    \A i \in DOMAIN components :
        /\ is_some(components[i].key_object) <=> is_broken(components[i])
        /\ is_some(components[i].key_object) =>
              unwrap(components[i].key_object).text = components[i].fix_key

\* A fix has removed a popup: the game ended on the window's timeout and the
\* window is unbroken again, next to a broken milk with its popup.
C11_Witness ==
    /\ menu = <<GameOverScreen_new(NotInTime("W"))>>
    /\ ~is_broken(components[1])
    /\ components[1].key_object = <<>>
    /\ is_broken(components[2])
    /\ is_some(components[2].key_object)

\* The draws in which the trigger fires for object i.
FiringFor(i) ==
    {s \in ExploredSamples : s[i] < chance_of_breaking(GAME_STATE)}

\* C12: every object starts unbroken; an object goes from unbroken to broken
\* only in a tick of the playing game in which its trigger fires, and from
\* broken to unbroken only in a key-down of its fix key; while it stays
\* broken its countdown never goes back.
C12_ObjectTransitions ==
    /\ \A i \in DOMAIN components : ~is_broken(components[i])
    /\ [][\A i \in DOMAIN components :
             LET c == components[i]
                 d == components'[i]
             IN /\ (~is_broken(c) /\ is_broken(d)) =>
                      /\ ~is_paused
                      /\ \E s \in FiringFor(i) : UpdateOf(s)
                /\ (is_broken(c) /\ ~is_broken(d)) =>
                      /\ KeyDownOf(<<c.fix_key>>)
                      /\ on_key_pressed(c, c.fix_key).result
                /\ (is_broken(c) /\ is_broken(d)) =>
                      /\ frames_since_broken(d) >= frames_since_broken(c)
                      /\ frames_existed(d) >= frames_existed(c)]_vars

\* The rug has just broken while the lamp, broken one tick earlier, counts on.
C12_Witness ==
    /\ ~is_paused
    /\ is_broken(components[3]) /\ frames_since_broken(components[3]) = 0
    /\ is_broken(components[4]) /\ frames_since_broken(components[4]) = 1

\* C13: from the playing state, a tick shows the not-in-time screen for key k
\* exactly when an object with fix key k is timed out after it, a key-down of
\* a non-quit key shows the wrong-key screen for that key exactly when no
\* object accepts it, no other step pauses, and in every playing state no
\* object is timed out.
C13_PauseExactly ==
    /\ [](~is_paused => \A i \in DOMAIN components : ~TimedOut(components[i]))
    /\ [][~is_paused =>
            /\ Update =>
                  /\ \A k \in VirtualKeyCode :
                        menu' = <<GameOverScreen_new(NotInTime(k))>>
                        <=> \E i \in TimedOutAfter : components[i].fix_key = k
                  /\ is_some(menu') <=> TimedOutAfter # {}
            /\ \A k \in NonQuitKeys :
                  KeyDownOf(<<k>>) =>
                     LET accepted == \E i \in Broken(components) :
                                         components[i].fix_key = k
                     IN /\ is_some(menu') <=> ~accepted
                        /\ ~accepted => menu' = <<GameOverScreen_new(WrongKey(k))>>
            /\ (KeyUp \/ KeyDownOf(<<>>) \/ KeyDownOf(<<"Escape">>)) => menu' = menu
            /\ is_some(menu') =>
                  \/ Update /\ TimedOutAfter # {}
                  \/ \E k \in NonQuitKeys : KeyDownOf(<<k>>)]_vars

C13_Witness ==
    /\ menu = <<GameOverScreen_new(NotInTime("D"))>>
    /\ Broken(components) = {5}
    /\ TimedOut(components[5])

\* The objects a key-down of k changes, in the state it is delivered in.
ChangedBy(k) ==
    {i \in DOMAIN components : key_down_event(<<k>>).components[i] # components[i]}

\* C14 (as stated): a key-down changes at most one object.
C14_AtMostOneFixed ==
    \A k \in NonQuitKeys : running => Cardinality(ChangedBy(k)) <= 1

\* C14 (amended): a key-down of a non-quit key fixes every broken object
\* whose fix key is the pressed key, all of them when several share it, and
\* changes no other object.
C14_EveryMatchingFixed ==
    \A k \in NonQuitKeys :
        running =>
            \A i \in DOMAIN components :
                LET c == components[i]
                    d == key_down_event(<<k>>).components[i]
                IN IF is_broken(c) /\ c.fix_key = k
                   THEN /\ ~is_broken(d)
                        /\ d.key_object = <<>>
                        /\ d.fix_key = c.fix_key
                   ELSE d = c

\* Two drawers are broken at once and a key-down of D changes both.
C14_Witness ==
    /\ ~is_paused
    /\ running
    /\ Broken(components) = {5, 6}
    /\ frames_existed(components[5]) = 30
    /\ ChangedBy("D") = {5, 6}

fix_keys == [i \in DOMAIN components |-> components[i].fix_key]

\* C15 (as stated): no two objects of a running session share a fix key.
C15_DistinctKeys ==
    running =>
        \A i, j \in DOMAIN components :
            i # j => components[i].fix_key # components[j].fix_key

\* C15 (amended): the session runs, unvalidated, with the layout of
\* create_objects: window W, milk M, rug R, lamp L, with keys of their own,
\* and the three drawers sharing D; no event changes a fix key.
C15_LayoutAsConstructed ==
    /\ fix_keys = <<"W", "M", "R", "L", "D", "D", "D">>
    /\ \A i, j \in 1..4 : i # j => fix_keys[i] # fix_keys[j]
    /\ \A i \in 5..7 : fix_keys[i] = fix_keys[5] /\ fix_keys[i] \notin {fix_keys[j] : j \in 1..4}

\* The game is being played with two drawers broken, both asking for D.
C15_Witness ==
    /\ running
    /\ ~is_paused
    /\ Broken(components) = {6, 7}
    /\ unwrap(components[6].key_object).text = unwrap(components[7].key_object).text

\* C16: in every state of the running process, playing or paused, a key-down
\* of Escape exits with status 0 and changes neither an object nor the menu.
C16_QuitKey ==
    /\ [](running =>
            LET after == key_down_event(<<"Escape">>)
            IN /\ after.exit_code = <<0>>
               /\ after.components = components
               /\ after.menu = menu)
    /\ [][exit_code' # exit_code =>
            /\ KeyDownOf(<<"Escape">>)
            /\ exit_code' = <<0>>
            /\ components' = components
            /\ menu' = menu]_vars

\* The process has exited from the paused game, an object still broken.
C16_Witness ==
    /\ exit_code = <<0>>
    /\ menu = <<GameOverScreen_new(NotInTime("M"))>>
    /\ Broken(components) = {2}

\* C17: in every state of the running process a key release changes nothing.
C17_KeyReleaseNoOp ==
    \A input \in KeyInput :
        running =>
            LET after == key_up_event(input)
            IN /\ after.components = components
               /\ after.menu = menu
               /\ after.exit_code = exit_code

\* A state in which the released key is the fix key of a broken object.
C17_Witness ==
    /\ running
    /\ ~is_paused
    /\ Broken(components) = {4}
    /\ frames_existed(components[4]) = 10

\* C18 (as stated): once paused, no step replaces the menu.
C18_ReasonSetOnce ==
    [][is_paused => menu' = menu]_vars

\* C19: the popup of every broken object has existed for at least 0 and at
\* most lifetime + 1 frames.
C19_CountdownBounded ==
    \A i \in Broken(components) :
        /\ 0 <= frames_existed(components[i])
        /\ frames_existed(components[i]) <= unwrap(components[i].key_object).lifetime + 1
        /\ unwrap(components[i].key_object).lifetime = 120

C19_Witness ==
    /\ menu = <<GameOverScreen_new(NotInTime("M"))>>
    /\ is_broken(components[2])
    /\ frames_existed(components[2]) = 121
    /\ is_broken(components[3])

====
